---- MODULE Spec2Model ----
(***************************************************************************)
(* A model of src/bot.py: the GGSel push bot.                              *)
(*                                                                         *)
(*  - the signed-auth session (_ensure_api_token) and the API client       *)
(*    (_request_json) with its single retry on 401;                        *)
(*  - the change detectors (get_unread, get_recent_orders) and the         *)
(*    per-chat seen-sets kept in application.bot_data;                     *)
(*  - the session scheduler (start) with its two strategies: the host      *)
(*    JobQueue and the fallback asyncio loops.                             *)
(*                                                                         *)
(* The handlers are asyncio coroutines and every upstream call goes        *)
(* through the blocking `requests` library, so a coroutine can be          *)
(* interleaved with another one only at its `await`s (reply_text,          *)
(* send_message, asyncio.sleep).  Each action below is one such atomic     *)
(* segment of a handler.                                                   *)
(*                                                                         *)
(* Python values: None and the other falsy values of a field are the       *)
(* empty string (for text fields) or 0 (for numeric ids); an optional      *)
(* dict is a sequence of length 0 or 1; a fetch is [ok, items], ok FALSE   *)
(* when it raises.                                                         *)
(***************************************************************************)
EXTENDS Integers, Sequences, FiniteSets, TLC

VARIABLES
    SELLER_ID,              \* bot.py:23   "" is None (the variable is not set)
    API_KEY,                \* bot.py:20   "" is None
    API_TOKEN,              \* bot.py:26   "" is None
    API_TOKEN_EXPIRES_AT,   \* bot.py:27
    now,                    \* time.time(), whole seconds
    call,                   \* what the last _request_json / _ensure_api_token call did
    busy,                   \* the coroutine that holds the event loop's thread, and where
    emitted,                \* history: the keys the deduplicating checks have alerted
    job_queue,              \* context.job_queue is not None
    seen_keys,              \* bot_data["seen_keys"]:   chat_id -> set of keys
    seen_orders,            \* bot_data["seen_orders"]: chat_id -> set of order ids
    jobs,                   \* the JobQueue: job name -> number of scheduled jobs
    bg_tasks,               \* bot_data["bg_tasks"]: the (chat_id, category) keys present
    loops,                  \* (chat_id, category) -> number of running loop tasks
    handlers,               \* start handlers suspended at an await: (chat_id, pc) -> count
    out,                    \* what the last check did (alerts built, delivery, errors)
    up,                     \* the upstream platform's data, as the detectors fetch it
    steps                   \* calls and clock advances so far (the auth specification)

vars == <<SELLER_ID, API_KEY, API_TOKEN, API_TOKEN_EXPIRES_AT, now, call, busy, emitted,
          job_queue, seen_keys, seen_orders, jobs, bg_tasks, loops, handlers, out, up, steps>>

\* What the handlers and the checks of the scheduler leave alone.
authVars == <<SELLER_ID, API_KEY, API_TOKEN, API_TOKEN_EXPIRES_AT, now, call, busy, up, steps>>
schedVars == <<job_queue, jobs, bg_tasks, loops, handlers>>

(***************************************************************************)
(* Bounds of the model.                                                    *)
(***************************************************************************)
MaxConv == 3        \* conversations in one list-chats response
MaxThread == 2      \* messages in one conversation
MaxSales == 2       \* sales in one last-sales response
MaxHandlers == 2    \* start handlers in flight at once (concurrent updates)
MaxAuthSteps == 3   \* steps (calls, clock advances) in one run of the auth specification

\* str(n) for the small integers of the model.
IntStr(n) ==
    CASE n = 0 -> "0" [] n = 1 -> "1" [] n = 2 -> "2" [] n = 3 -> "3"
      [] n = 4 -> "4" [] n = 5 -> "5" [] OTHER -> "9"

(***************************************************************************)
(* Message selection: _select_last_unread_buyer_message, bot.py:188-218.   *)
(***************************************************************************)
\* float("-inf")
NegInf == -1

\* _to_ts: ISO-8601 first, then a raw numeric epoch, else -inf.
ToTs(s) ==
    CASE s = "" -> NegInf
      [] s = "2024-01-01T00:00:01Z" -> 1704067201
      [] s = "2024-01-01T00:00:02Z" -> 1704067202
      [] s = "2024-01-01T00:00:03Z" -> 1704067203
      [] s = "1704067200" -> 1704067200
      [] s = "5" -> 5
      [] OTHER -> NegInf

\* int(x) of a `buyer` or `deleted` field raises unless the field is numeric.
CanInt(s) == s \in {"0", "1"}

\* a or b (Python's `or` on strings: the first truthy operand, else the last).
Or(a, b) == IF a # "" THEN a ELSE b

\* lines 207-213: the message passes the filter.
IsBuyerMsg(msg) ==
    /\ CanInt(msg.buyer) /\ CanInt(msg.deleted)
    /\ msg.buyer = "1" /\ msg.deleted # "1"

MsgTs(msg) == ToTs(Or(msg.date_written, msg.created_at))

\* The loop of lines 204-217 over messages[1..n]: <<latest_msg, latest_ts>>,
\* latest_msg a sequence of length 0 (None) or 1.
RECURSIVE SelectLoop(_, _)
SelectLoop(messages, n) ==
    IF n = 0 THEN <<<< >>, NegInf>>
    ELSE LET prev == SelectLoop(messages, n - 1)
             msg == messages[n]
         IN  IF IsBuyerMsg(msg) /\ MsgTs(msg) > prev[2]
             THEN <<<<msg>>, MsgTs(msg)>>
             ELSE prev

SelectLastUnreadBuyerMessage(messages) == SelectLoop(messages, Len(messages))[1]

(***************************************************************************)
(* The message detector: get_unread, bot.py:221-243.                       *)
(*                                                                         *)
(* A response is [ok, items]: ok is FALSE when the api_* call raised.      *)
(* A conversation of the upstream is [chat, r1, r100]: its summary in the  *)
(* list-chats response and the responses to the count=1 and count=100      *)
(* message fetches.                                                        *)
(***************************************************************************)
Resp(ok, items) == [ok |-> ok, items |-> items]

\* lines 230-234 and 237-240: try: api_list_messages(...) except: msgs = []
MsgsOrEmpty(r) == IF r.ok THEN r.items ELSE << >>

\* One pass of the loop of lines 226-242.
GetUnreadItem(conv) ==
    LET first == MsgsOrEmpty(conv.r1)
        msgs  == IF first = << >> \/ SelectLastUnreadBuyerMessage(first) = << >>
                 THEN MsgsOrEmpty(conv.r100)
                 ELSE first
        sel   == SelectLastUnreadBuyerMessage(msgs)
    IN  [chat    |-> conv.chat,
         message |-> IF sel # << >> THEN sel
                     ELSE IF msgs # << >> THEN <<msgs[1]>> ELSE << >>]

\* get_unread(): raises when api_list_chats raises (line 224).
GetUnread(chats) ==
    IF ~chats.ok THEN Resp(FALSE, << >>)
    ELSE Resp(TRUE, [i \in DOMAIN chats.items |-> GetUnreadItem(chats.items[i])])

(***************************************************************************)
(* format_alert, bot.py:275-291, and the key of lines 425-434.             *)
(***************************************************************************)
FormatAlertMut(item) ==
    LET chat == item.chat
        msg  == item.message
    IN  [email |-> Or(chat.email, "-"),
         conversation_id |-> IF chat.id_i # 0 THEN IntStr(chat.id_i) ELSE "-",
         dt   |-> IF msg # << >> THEN msg[1].date_written ELSE "",
         text |-> IF msg # << >> THEN msg[1].message ELSE ""]

FormatAlert(item) ==
    LET chat == item.chat
        msg  == item.message
    IN  [email |-> Or(chat.email, "-"),
         conversation_id |-> IF chat.id_i # 0 THEN IntStr(chat.id_i) ELSE "-",
         dt   |-> Or(IF msg # << >> THEN msg[1].date_written ELSE "",
                     Or(chat.last_message, "-")),
         text |-> Or(IF msg # << >> THEN msg[1].message ELSE "",
                     "New messages: " \o (IF chat.cnt_new # 0 THEN IntStr(chat.cnt_new) ELSE "-"))]

MsgKeyMut(item) ==
    IF item.message # << >> /\ item.message[1].id # 0 THEN IntStr(item.message[1].id)
    ELSE Or(item.chat.last_message, IntStr(item.chat.cnt_new))

\* key = f"{conversation_id}:{msg_id}", msg_id the first truthy of the message's
\* id, its date_written, the chat's last_message and the chat's cnt_new.
MsgKey(item) ==
    LET chat == item.chat
        msg  == item.message
        msg_id ==
            IF msg # << >> /\ msg[1].id # 0 THEN IntStr(msg[1].id)
            ELSE IF msg # << >> /\ msg[1].date_written # "" THEN msg[1].date_written
            ELSE IF chat.last_message # "" THEN chat.last_message
            ELSE IntStr(chat.cnt_new)
    IN  IntStr(chat.id_i) \o ":" \o msg_id

\* The alert of one item as the model records it: the key it is reported under
\* and the formatted text.
Alert(item) == [key |-> MsgKey(item), alert |-> FormatAlert(item)]

\* The loop of lines 421-438 over unread[1..n]: the seen-set and the alerts.
\* The loop with the test but without the insert of line 436.
CheckLoopMut(unread, n, seen_set) ==
    [seen   |-> seen_set,
     alerts |-> SelectSeq([i \in 1..n |-> Alert(unread[i])],
                          LAMBDA a : a.key \notin seen_set)]

RECURSIVE CheckLoop(_, _, _)
CheckLoop(unread, n, seen_set) ==
    IF n = 0 THEN [seen |-> seen_set, alerts |-> << >>]
    ELSE LET prev == CheckLoop(unread, n - 1, seen_set)
             key  == MsgKey(unread[n])
         IN  IF key \in prev.seen THEN prev
             ELSE [seen   |-> prev.seen \cup {key},
                   alerts |-> Append(prev.alerts, Alert(unread[n]))]

\* manual_check, lines 376-380: every unread item is formatted, no seen-set.
ManualAlerts(unread) == [i \in DOMAIN unread |-> Alert(unread[i])]

(***************************************************************************)
(* The order detector: get_recent_orders, bot.py:246-273.                  *)
(* A sale of the upstream is [sale, info]: the stub of the last-sales      *)
(* response and the response of the purchase-info fetch.                   *)
(***************************************************************************)
\* invoice_id is None
NoInvoice == -1

IsPaidMut(info) == TRUE

\* line 256: is_paid = bool(info.get("date_pay"))
IsPaid(info) == info.date_pay # ""

Order(s) ==
    [number     |-> s.sale.invoice_id,
     offer_title |-> Or(s.info.name, Or(s.sale.product_name, "-")),
     status     |-> "paid",
     created_at |-> Or(s.info.purchase_date, Or(s.sale.date, "-"))]

\* The loop of lines 250-272 over sales[1..n]: [ok, items], ok FALSE when a
\* purchase-info fetch raised.
RECURSIVE OrdersLoop(_, _)
OrdersLoop(sales, n) ==
    IF n = 0 THEN Resp(TRUE, << >>)
    ELSE LET prev == OrdersLoop(sales, n - 1)
             s    == sales[n]
         IN  IF ~prev.ok THEN prev
             ELSE IF s.sale.invoice_id = NoInvoice THEN prev
             ELSE IF ~s.ok THEN Resp(FALSE, << >>)
             ELSE IF ~IsPaid(s.info) THEN prev
             ELSE Resp(TRUE, Append(prev.items, Order(s)))

GetRecentOrders(sales) ==
    IF ~sales.ok THEN Resp(FALSE, << >>) ELSE OrdersLoop(sales.items, Len(sales.items))

\* oid = order.get("id") or order.get("number"): the order has no "id".
OrderId(order) == order.number

\* The loop of lines 465-470 (and 400-405) over orders[1..n].
RECURSIVE OrdersCheckLoop(_, _, _)
OrdersCheckLoop(orders, n, seen_set) ==
    IF n = 0 THEN [seen |-> seen_set, alerts |-> << >>]
    ELSE LET prev == OrdersCheckLoop(orders, n - 1, seen_set)
             oid  == OrderId(orders[n])
         IN  IF oid \in prev.seen THEN prev
             ELSE [seen   |-> prev.seen \cup {oid},
                   alerts |-> Append(prev.alerts, orders[n])]

(***************************************************************************)
(* The signed-auth session: _ensure_api_token, bot.py:79-110.              *)
(*                                                                         *)
(* A login response is [status, ctjson, token, valid_thru]: status 0 is a  *)
(* transport error (requests.post raised), ctjson says the Content-Type    *)
(* is application/json, token "" is a body without "token", valid_thru is  *)
(* [kind, ts]: "none" (absent or not a string), "bad" (fromisoformat       *)
(* raises) or "iso" (parses to ts).                                        *)
(***************************************************************************)
\* line 86: the safety margin, seconds
Margin == 30
\* line 103: the default lifetime of a token, seconds
DefaultTtl == 1800

\* line 81: not SELLER_ID or not str(SELLER_ID).strip()
SellerIdMissing == SELLER_ID \in {"", " "}
\* line 90: int(SELLER_ID) raises ValueError
SellerIdNotInt == SELLER_ID \notin {"42"}

TokenFreshMut(token, exp, t, force_refresh) ==
    token # "" /\ ~force_refresh /\ exp - t >= Margin

\* line 86: the stored token is used as it is.
TokenFresh(token, exp, t, force_refresh) ==
    token # "" /\ ~force_refresh /\ exp - t > Margin

\* lines 102-110
ExpiresAt(valid_thru, t) ==
    IF valid_thru.kind = "iso" THEN valid_thru.ts ELSE t + DefaultTtl

EnsureResult(token, exp, raised, login) ==
    [token |-> token, exp |-> exp, raised |-> raised, login |-> login]

EnsureApiTokenMut(token, exp, t, force_refresh, r) ==
    IF SellerIdMissing \/ API_KEY = "" THEN EnsureResult(token, exp, "config", FALSE)
    ELSE IF TokenFresh(token, exp, t, force_refresh) THEN EnsureResult(token, exp, "", FALSE)
    ELSE IF SellerIdNotInt THEN EnsureResult(token, exp, "value", FALSE)
    ELSE IF r.status = 0 THEN EnsureResult(token, exp, "login_transport", TRUE)
    ELSE IF r.status # 200 THEN EnsureResult("", 0, "login", TRUE)
    ELSE IF ~r.ctjson \/ r.token = "" THEN EnsureResult("", 0, "login", TRUE)
    ELSE EnsureResult(r.token, ExpiresAt(r.valid_thru, t), "", TRUE)

\* _ensure_api_token(force_refresh) at time t, the login endpoint answering r:
\* the stored pair afterwards, the error raised ("" for none) and whether the
\* login POST was issued.
EnsureApiToken(token, exp, t, force_refresh, r) ==
    IF SellerIdMissing \/ API_KEY = "" THEN EnsureResult(token, exp, "config", FALSE)
    ELSE IF TokenFresh(token, exp, t, force_refresh) THEN EnsureResult(token, exp, "", FALSE)
    ELSE IF SellerIdNotInt THEN EnsureResult(token, exp, "value", FALSE)
    ELSE IF r.status = 0 THEN EnsureResult(token, exp, "login_transport", TRUE)
    ELSE IF r.status # 200 THEN EnsureResult(token, exp, "login", TRUE)
    ELSE IF ~r.ctjson \/ r.token = "" THEN EnsureResult(token, exp, "login", TRUE)
    ELSE EnsureResult(r.token, ExpiresAt(r.valid_thru, t), "", TRUE)

(***************************************************************************)
(* The API client: _request_json, bot.py:113-129.                          *)
(*                                                                         *)
(* A GET response is [status, json]: status 0 is a transport error, json   *)
(* says the body parses as JSON.  L and G are the responses the login      *)
(* endpoint and the GET endpoint give to the requests of this call, in     *)
(* order.  params is [has_token, token]: the caller's query parameters.    *)
(***************************************************************************)
RequestResult(token, exp, outcome, logins, forced, gets) ==
    [token |-> token, exp |-> exp, outcome |-> outcome,
     logins |-> logins, forced |-> forced, gets |-> gets]

B2N(b) == IF b THEN 1 ELSE 0

\* Prepending what one call did before it recursed to the result of the recursion.
After(logins, forced, sent, rec) ==
    [rec EXCEPT !.logins = @ + logins, !.forced = @ + forced, !.gets = <<sent>> \o @]

RetryArgMut == TRUE

\* line 124: the recursive call passes _retry=False.
RetryArg == FALSE

RECURSIVE RequestJson(_, _, _, _, _, _, _)
RequestJson(token, exp, t, params, L, G, retry) ==
    LET e    == EnsureApiToken(token, exp, t, FALSE, L[1])            \* line 115
        L1   == IF e.login THEN Tail(L) ELSE L
        \* lines 116-118: the bearer header and the injected query token
        inject == e.token # "" /\ ~params.has_token
        sent == [token_param |-> IF inject THEN e.token ELSE params.token,
                 bearer      |-> e.token,
                 stored      |-> e.token,
                 status      |-> G[1].status]
        params1 == IF inject THEN [has_token |-> TRUE, token |-> e.token] ELSE params
        n1   == B2N(e.login)
    IN  IF e.raised # "" THEN RequestResult(e.token, e.exp, e.raised, n1, 0, << >>)
        ELSE IF G[1].status = 0
             THEN RequestResult(e.token, e.exp, "transport", n1, 0, <<sent>>)
        ELSE IF G[1].status = 401 THEN                                  \* line 120
             IF retry
             THEN LET f == EnsureApiToken(e.token, e.exp, t, TRUE, L1[1])   \* line 123
                      L2 == IF f.login THEN Tail(L1) ELSE L1
                  IN  IF f.raised # ""
                      THEN RequestResult(f.token, f.exp, f.raised, n1 + B2N(f.login), 1, <<sent>>)
                      ELSE After(n1 + B2N(f.login), 1, sent,           \* line 124
                                 RequestJson(f.token, f.exp, t, params1, L2, Tail(G), RetryArg))
             ELSE RequestResult(e.token, e.exp, "unauthorized", n1, 0, <<sent>>)
        ELSE IF G[1].status # 200                                       \* line 128
             THEN RequestResult(e.token, e.exp, "http", n1, 0, <<sent>>)
        ELSE IF ~G[1].json                                              \* line 129
             THEN RequestResult(e.token, e.exp, "protocol", n1, 0, <<sent>>)
        ELSE RequestResult(e.token, e.exp, "ok", n1, 0, <<sent>>)

\* A typed endpoint, api_list_chats (lines 133-147): the query carries the token
\* stored when the parameters are built, before _request_json runs.
ApiListChatsCall(token, exp, t, L, G) ==
    IF API_KEY = "" THEN RequestResult(token, exp, "config", 0, 0, << >>)
    ELSE RequestJson(token, exp, t, [has_token |-> TRUE, token |-> token], L, G, TRUE)

(***************************************************************************)
(* The upstream's answers to the requests of one call.                     *)
(***************************************************************************)
NoValidThru == [kind |-> "none", ts |-> 0]

LoginResp(status, ctjson, token, valid_thru) ==
    [status |-> status, ctjson |-> ctjson, token |-> token, valid_thru |-> valid_thru]

\* What the login endpoint may answer at time t.
LoginResps(t) ==
    {LoginResp(0, FALSE, "", NoValidThru),
     LoginResp(500, FALSE, "", NoValidThru),
     LoginResp(200, FALSE, "", NoValidThru),
     LoginResp(200, TRUE, "", NoValidThru),
     LoginResp(200, TRUE, "tokA", NoValidThru),
     LoginResp(200, TRUE, "tokA", [kind |-> "bad", ts |-> 0]),
     LoginResp(200, TRUE, "tokB", [kind |-> "iso", ts |-> t + Margin]),
     LoginResp(200, TRUE, "tokB", [kind |-> "iso", ts |-> t + Margin + 1])}

GetResp(status, json) == [status |-> status, json |-> json]

GetResps ==
    {GetResp(0, FALSE), GetResp(200, TRUE), GetResp(200, FALSE),
     GetResp(401, FALSE), GetResp(500, FALSE)}

\* The answers to requests that are issued are the upstream's choice; a request
\* that is not issued has no answer (the first element stands in the script).
Answers(S, issued) == IF issued THEN S ELSE {CHOOSE x \in S : TRUE}

\* The upstream's answers to requests beyond those of l1..l3 and g1, g2.
MoreLogins == [i \in 1..3 |-> LoginResp(200, TRUE, "tokA", NoValidThru)]
MoreGets == [i \in 1..3 |-> GetResp(200, TRUE)]

\* Seconds the clock may advance between two calls.
ClockSteps == {1, DefaultTtl - Margin - 1, DefaultTtl - Margin}

(***************************************************************************)
(* The auth specification: calls of _ensure_api_token and of a typed       *)
(* endpoint, one after another, the clock advancing in between.            *)
(***************************************************************************)
NoCall ==
    [seq |-> 0, kind |-> "none", force |-> FALSE, outcome |-> "", logins |-> 0,
     forced |-> 0, gets |-> << >>, resp |-> LoginResp(0, FALSE, "", NoValidThru)]

\* _ensure_api_token(force_refresh), as _request_json (lines 115, 123) and the
\* diagnostics probe (line 493) call it.
EnsureCall ==
    /\ steps < MaxAuthSteps
    /\ \E force_refresh \in BOOLEAN :
       \E r \in LoginResps(now) :
          LET e == EnsureApiToken(API_TOKEN, API_TOKEN_EXPIRES_AT, now, force_refresh, r)
          IN  /\ API_TOKEN' = e.token
              /\ API_TOKEN_EXPIRES_AT' = e.exp
              /\ call' = [seq |-> 1 - call.seq, kind |-> "ensure", force |-> force_refresh,
                          outcome |-> e.raised, logins |-> B2N(e.login),
                          forced |-> B2N(force_refresh), gets |-> << >>,
                          resp |-> IF e.login THEN r ELSE NoCall.resp]
    /\ steps' = steps + 1
    /\ UNCHANGED <<SELLER_ID, API_KEY, now, busy, emitted, job_queue, seen_keys, seen_orders, jobs,
                   bg_tasks, loops, handlers, out, up>>

\* One call of a typed endpoint.  The upstream answers the requests the call
\* issues: l1, l2, l3 the logins of lines 115, 123 and 115 again, g1 and g2 the GETs.
RequestCall ==
    /\ steps < MaxAuthSteps
    /\ LET fresh == TokenFresh(API_TOKEN, API_TOKEN_EXPIRES_AT, now, FALSE) IN
       \E l1 \in Answers(LoginResps(now), ~fresh) :
       LET e1 == EnsureApiToken(API_TOKEN, API_TOKEN_EXPIRES_AT, now, FALSE, l1) IN
       \E g1 \in Answers(GetResps, e1.raised = "") :
       \E l2 \in Answers(LoginResps(now), e1.raised = "" /\ g1.status = 401) :
       LET e2 == EnsureApiToken(e1.token, e1.exp, now, TRUE, l2)
           retried == e1.raised = "" /\ g1.status = 401 /\ e2.raised = "" IN
       \E l3 \in Answers(LoginResps(now),
                         retried /\ ~TokenFresh(e2.token, e2.exp, now, FALSE)) :
       LET e3 == EnsureApiToken(e2.token, e2.exp, now, FALSE, l3) IN
       \E g2 \in Answers(GetResps, retried /\ e3.raised = "") :
          LET L == (IF fresh THEN <<l2, l3>> ELSE <<l1, l2, l3>>) \o MoreLogins
              r == ApiListChatsCall(API_TOKEN, API_TOKEN_EXPIRES_AT, now, L,
                                    <<g1, g2>> \o MoreGets)
          IN  /\ API_TOKEN' = r.token
              /\ API_TOKEN_EXPIRES_AT' = r.exp
              /\ call' = [seq |-> 1 - call.seq, kind |-> "request", force |-> FALSE,
                          outcome |-> r.outcome, logins |-> r.logins,
                          forced |-> r.forced, gets |-> r.gets, resp |-> NoCall.resp]
    /\ steps' = steps + 1
    /\ UNCHANGED <<SELLER_ID, API_KEY, now, busy, emitted, job_queue, seen_keys, seen_orders, jobs,
                   bg_tasks, loops, handlers, out, up>>

\* Time passes.
ClockTick ==
    /\ steps < MaxAuthSteps
    /\ \E d \in ClockSteps : now' = now + d
    /\ steps' = steps + 1
    /\ UNCHANGED <<SELLER_ID, API_KEY, API_TOKEN, API_TOKEN_EXPIRES_AT, call, busy, emitted, job_queue,
                   seen_keys, seen_orders, jobs, bg_tasks, loops, handlers, out, up>>

\* line 509: int(SELLER_ID) if SELLER_ID else 0 does not raise, so
\* probe_apilogin sends its POST.
ProbeLoginPosts == SELLER_ID = "" \/ ~SellerIdNotInt

\* What probe (lines 490-500) sends after _ensure_api_token left token e: the
\* parameters have no "token", so line 495 injects the stored one.
ProbeGet(e, g) ==
    [token_param |-> e.token, bearer |-> e.token, stored |-> e.token, status |-> g.status]

\* debug, bot.py:486-531, up to its reply: probe_apilogin, the chats probe and,
\* when SELLER_ID is truthy, the sales probe.  Every exception is swallowed.
DebugCall ==
    /\ steps < MaxAuthSteps
    /\ LET any == CHOOSE x \in LoginResps(now) : TRUE
           issue1 == EnsureApiToken(API_TOKEN, API_TOKEN_EXPIRES_AT, now, FALSE, any).login IN
       \E l1 \in Answers(LoginResps(now), issue1) :
       LET e1 == EnsureApiToken(API_TOKEN, API_TOKEN_EXPIRES_AT, now, FALSE, l1) IN
       \E g1 \in Answers(GetResps, e1.raised = "") :
       LET sales == SELLER_ID # ""                                      \* line 519
           issue2 == sales /\ EnsureApiToken(e1.token, e1.exp, now, FALSE, any).login IN
       \E l2 \in Answers(LoginResps(now), issue2) :
       LET e2 == IF sales THEN EnsureApiToken(e1.token, e1.exp, now, FALSE, l2)
                 ELSE EnsureResult(e1.token, e1.exp, "skipped", FALSE) IN
       \E g2 \in Answers(GetResps, e2.raised = "") :
          /\ API_TOKEN' = e2.token
          /\ API_TOKEN_EXPIRES_AT' = e2.exp
          /\ call' = [seq |-> 1 - call.seq, kind |-> "debug", force |-> FALSE,
                      outcome |-> "",
                      logins |-> B2N(ProbeLoginPosts) + B2N(e1.login) + B2N(e2.login),
                      forced |-> 0,
                      gets |-> (IF e1.raised = "" THEN <<ProbeGet(e1, g1)>> ELSE << >>)
                               \o (IF e2.raised = "" THEN <<ProbeGet(e2, g2)>> ELSE << >>),
                      resp |-> NoCall.resp]
    /\ steps' = steps + 1
    /\ UNCHANGED <<SELLER_ID, API_KEY, now, busy, emitted, job_queue, seen_keys, seen_orders, jobs,
                   bg_tasks, loops, handlers, out, up>>

(***************************************************************************)
(* The chat sessions and the scheduler state, bot.py:319-370.              *)
(***************************************************************************)
ChatIds == {1, 2}
Cats == {"msgs", "orders"}

\* job_name = f"auto_check_{chat_id}", orders_job_name = f"auto_orders_{chat_id}"
JobName(cat, chat_id) ==
    (IF cat = "msgs" THEN "auto_check_" ELSE "auto_orders_") \o IntStr(chat_id)

JobNames == {JobName(cat, c) : cat \in Cats, c \in ChatIds}

SetDefaultMut(map, chat_id) ==
    [c \in DOMAIN map \cup {chat_id} |-> IF c = chat_id THEN {} ELSE map[c]]

\* dict.setdefault(chat_id, set())
SetDefault(map, chat_id) ==
    IF chat_id \in DOMAIN map THEN map ELSE map @@ (chat_id :> {})

SeenOf(map, chat_id) == IF chat_id \in DOMAIN map THEN map[chat_id] ELSE {}

RemoveJobsMut(js, name) == js

\* for job in job_queue.get_jobs_by_name(name): job.schedule_removal()
RemoveJobs(js, name) == [js EXCEPT ![name] = 0]

\* job_queue.run_repeating(callback, ..., name=name)
RunRepeating(js, name) == [js EXCEPT ![name] = @ + 1]

\* lines 363-366 and 367-370: the loop task of (chat_id, cat) is created unless
\* task_map holds one that is not done; a loop task never finishes (its body
\* is `while True` around a check that catches every Exception).
NeedsTask(tasks, chat_id, cat) == <<chat_id, cat>> \notin tasks

RECURSIVE SumOf(_, _)
SumOf(f, S) ==
    IF S = {} THEN 0
    ELSE LET x == CHOOSE y \in S : TRUE IN f[x] + SumOf(f, S \ {x})

InFlight == SumOf(handlers, DOMAIN handlers)

(***************************************************************************)
(* What a check did, as the model records it.  delivered is "none" when    *)
(* nothing was sent, "ok", "failed" (the send raised) or "pending" (the    *)
(* coroutine is suspended in the send); err_to_chat is what became of the  *)
(* error text: "none" when none was sent to the chat, "ok" or "failed".    *)
(***************************************************************************)
NoCheck ==
    [seq |-> 0, chat |-> 0, kind |-> "none", cat |-> "none", unread |-> << >>,
     alerts |-> << >>, orders |-> << >>, raised |-> FALSE, delivered |-> "none",
     err_to_chat |-> "none"]

CheckRecord(chat_id, kind, cat, unread, alerts, orders, raised, delivered, err_to_chat) ==
    [seq |-> 1 - out.seq, chat |-> chat_id, kind |-> kind, cat |-> cat,
     unread |-> unread, alerts |-> alerts, orders |-> orders, raised |-> raised,
     delivered |-> delivered, err_to_chat |-> err_to_chat]

\* No coroutine is running: the event loop's thread is free.
Idle == [chat |-> 0, cat |-> "none", at |-> "idle", retry |-> FALSE,
         valid_thru |-> [kind |-> "none", ts |-> 0]]

NoneEmitted == [msgs |-> {}, orders |-> {}]

\* The keys a deduplicating check of a chat has just alerted, added to the history.
Emit(hist, cat, chat_id, keys) ==
    [hist EXCEPT ![cat] = @ \cup {<<chat_id, k>> : k \in keys}]

ErrorReplyMut(kind, raised, reply_ok) ==
    IF ~raised THEN "none" ELSE IF reply_ok THEN "ok" ELSE "failed"

\* The except branches.  A manual check replies with the error text (lines
\* 385-386, 411-412): "ok", or "failed" when that reply raises too.  A
\* scheduled check and the immediate check of start print it (lines 442-443,
\* 473-474): "none".
ErrorReply(kind, raised, reply_ok) ==
    IF ~raised \/ kind # "manual" THEN "none"
    ELSE IF reply_ok THEN "ok" ELSE "failed"

SendResult(alerts, send_ok) ==
    IF alerts = << >> THEN "none" ELSE IF send_ok THEN "ok" ELSE "failed"

(***************************************************************************)
(* _auto_check_once, bot.py:414-443, up to its await: the seen-sets        *)
(* afterwards and the alerts to send.  get_unread runs before the          *)
(* setdefault of lines 418-419, so a failed fetch leaves the map alone.    *)
(***************************************************************************)
AutoCheckCompute(seen_map, chat_id, chats) ==
    LET unread == GetUnread(chats)
        m == SetDefault(seen_map, chat_id)
        r == CheckLoop(unread.items, Len(unread.items), m[chat_id])
    IN  IF ~unread.ok
        THEN [seen_map |-> seen_map, unread |-> << >>, alerts |-> << >>, raised |-> TRUE]
        ELSE [seen_map |-> [m EXCEPT ![chat_id] = r.seen], unread |-> unread.items,
              alerts |-> r.alerts, raised |-> FALSE]

\* _auto_check_once as a tick runs it: nothing follows the send but the except.
AutoCheckOnce(chat_id, chats, send_ok) ==
    LET r == AutoCheckCompute(seen_keys, chat_id, chats)
    IN  /\ seen_keys' = r.seen_map
        /\ out' = CheckRecord(chat_id, "tick", "msgs", r.unread, r.alerts, << >>,
                              r.raised \/ (r.alerts # << >> /\ ~send_ok),
                              SendResult(r.alerts, send_ok),
                              ErrorReply("tick", r.raised \/ (r.alerts # << >> /\ ~send_ok),
                                         send_ok))
        /\ emitted' = Emit(emitted, "msgs", chat_id, {r.alerts[i].key : i \in DOMAIN r.alerts})
        /\ UNCHANGED seen_orders

(***************************************************************************)
(* _auto_orders_once, bot.py:457-474.                                      *)
(***************************************************************************)
OrdersCompute(seen_map, chat_id, sales) ==
    LET orders == GetRecentOrders(sales)
        m == SetDefault(seen_map, chat_id)
        r == OrdersCheckLoop(orders.items, Len(orders.items), m[chat_id])
    IN  IF ~orders.ok THEN [seen_map |-> seen_map, alerts |-> << >>, raised |-> TRUE]
        ELSE IF orders.items = << >>                                \* lines 460, 393
             THEN [seen_map |-> seen_map, alerts |-> << >>, raised |-> FALSE]
        ELSE [seen_map |-> [m EXCEPT ![chat_id] = r.seen], alerts |-> r.alerts,
              raised |-> FALSE]

AutoOrdersOnce(chat_id, sales, send_ok) ==
    LET r == OrdersCompute(seen_orders, chat_id, sales)
    IN  /\ seen_orders' = r.seen_map
        /\ out' = CheckRecord(chat_id, "tick", "orders", << >>, << >>, r.alerts,
                              r.raised \/ (r.alerts # << >> /\ ~send_ok),
                              SendResult(r.alerts, send_ok),
                              ErrorReply("tick", r.raised \/ (r.alerts # << >> /\ ~send_ok),
                                         send_ok))
        /\ emitted' = Emit(emitted, "orders", chat_id,
                            {OrderId(r.alerts[i]) : i \in DOMAIN r.alerts})
        /\ UNCHANGED seen_keys

(***************************************************************************)
(* The periodic checks: the JobQueue callbacks auto_check and              *)
(* auto_orders_check (lines 445-448, 476-478) and the fallback loops       *)
(* _auto_check_loop and _auto_orders_loop (lines 450-455, 480-484).        *)
(***************************************************************************)
LoopAfterCheckMut(lp, chat_id, cat, raised) ==
    IF raised THEN [lp EXCEPT ![<<chat_id, cat>>] = 0] ELSE lp

\* The loop task after one pass of `while True`: _auto_*_once has caught every
\* Exception, so the task goes on to its sleep and stays alive.
LoopAfterCheck(lp, chat_id, cat, raised) == lp

\* A run of the job `auto_check_<chat_id>`.
AutoCheck(chat_id, chats) ==
    /\ jobs[JobName("msgs", chat_id)] > 0
    /\ \E send_ok \in BOOLEAN : AutoCheckOnce(chat_id, chats, send_ok)
    /\ UNCHANGED <<authVars, schedVars>>

\* A run of the job `auto_orders_<chat_id>`.
AutoOrdersCheck(chat_id, sales) ==
    /\ jobs[JobName("orders", chat_id)] > 0
    /\ \E send_ok \in BOOLEAN : AutoOrdersOnce(chat_id, sales, send_ok)
    /\ UNCHANGED <<authVars, schedVars>>

\* A loop that keeps a seen-set of its own, apart from bot_data's.
AutoCheckLoopMut(chat_id, chats) ==
    /\ loops[<<chat_id, "msgs">>] > 0
    /\ LET r == AutoCheckCompute(<< >>, chat_id, chats)
       IN  out' = CheckRecord(chat_id, "tick", "msgs", r.unread, r.alerts, << >>, r.raised,
                              SendResult(r.alerts, TRUE), "none")
    /\ UNCHANGED <<authVars, schedVars, emitted, seen_keys, seen_orders>>

\* One pass of the loop of _auto_check_loop.
AutoCheckLoop(chat_id, chats) ==
    /\ loops[<<chat_id, "msgs">>] > 0
    /\ \E send_ok \in BOOLEAN : AutoCheckOnce(chat_id, chats, send_ok)
    /\ loops' = LoopAfterCheck(loops, chat_id, "msgs", out'.raised)
    /\ UNCHANGED <<authVars, job_queue, jobs, bg_tasks, handlers>>

\* One pass of the loop of _auto_orders_loop.
AutoOrdersLoop(chat_id, sales) ==
    /\ loops[<<chat_id, "orders">>] > 0
    /\ \E send_ok \in BOOLEAN : AutoOrdersOnce(chat_id, sales, send_ok)
    /\ loops' = LoopAfterCheck(loops, chat_id, "orders", out'.raised)
    /\ UNCHANGED <<authVars, job_queue, jobs, bg_tasks, handlers>>

(***************************************************************************)
(* start, bot.py:310-370.  The handler is suspended at reply_text (line    *)
(* 314) and, when the immediate check has alerts to send, at send_message  *)
(* (line 441, inside the await of line 341 or 360).                        *)
(***************************************************************************)
\* A /start update is dispatched: the handler runs to the await of line 314.
StartBegin(chat_id) ==
    /\ InFlight < MaxHandlers
    /\ handlers' = [handlers EXCEPT ![<<chat_id, "reply">>] = @ + 1]
    /\ UNCHANGED <<authVars, emitted, job_queue, seen_keys, seen_orders, jobs, bg_tasks, loops,
                   out>>

\* reply_text raises: the handler ends there.
StartReplyRaises(chat_id) ==
    /\ handlers[<<chat_id, "reply">>] > 0
    /\ handlers' = [handlers EXCEPT ![<<chat_id, "reply">>] = @ - 1]
    /\ UNCHANGED <<authVars, emitted, job_queue, seen_keys, seen_orders, jobs, bg_tasks, loops,
                   out>>

\* Lines 332-338 after 330-331: the message job is replaced (JobQueue only).
ArmMessageJob(js, chat_id) ==
    IF job_queue
    THEN RunRepeating(RemoveJobs(js, JobName("msgs", chat_id)), JobName("msgs", chat_id))
    ELSE js

\* Lines 344-354: the orders job is replaced (JobQueue only).
ArmOrdersJob(js, chat_id) ==
    IF job_queue
    THEN RunRepeating(RemoveJobs(js, JobName("orders", chat_id)), JobName("orders", chat_id))
    ELSE js

\* Lines 363-370: the tasks the fallback creates.
NewTasks(tasks, chat_id) ==
    IF job_queue THEN {}
    ELSE {<<chat_id, cat>> : cat \in {k \in Cats : NeedsTask(tasks, chat_id, k)}}

\* What follows the immediate check: lines 344-354 or 363-370.
ArmRest(js, chat_id) ==
    /\ jobs' = ArmOrdersJob(js, chat_id)
    /\ bg_tasks' = bg_tasks \cup NewTasks(bg_tasks, chat_id)
    /\ loops' = [k \in DOMAIN loops |->
                    IF k \in NewTasks(bg_tasks, chat_id) THEN loops[k] + 1 ELSE loops[k]]

\* reply_text returns: lines 320-343 (JobQueue) or 320-362 (fallback), and the
\* rest of the handler too when the immediate check sends nothing.
StartSetUp(chat_id, chats) ==
    /\ handlers[<<chat_id, "reply">>] > 0
    /\ LET r == AutoCheckCompute(SetDefault(seen_keys, chat_id), chat_id, chats)
           js == ArmMessageJob(jobs, chat_id)
       IN  /\ seen_keys' = r.seen_map
           /\ emitted' = Emit(emitted, "msgs", chat_id,
                               {r.alerts[i].key : i \in DOMAIN r.alerts})
           /\ seen_orders' = SetDefault(seen_orders, chat_id)
           /\ out' = CheckRecord(chat_id, "immediate", "msgs", r.unread, r.alerts, << >>, r.raised,
                                 IF r.alerts = << >> THEN "none" ELSE "pending",
                                 ErrorReply("immediate", r.raised, TRUE))
           /\ IF r.alerts = << >>
              THEN /\ handlers' = [handlers EXCEPT ![<<chat_id, "reply">>] = @ - 1]
                   /\ ArmRest(js, chat_id)
              ELSE /\ handlers' = [handlers EXCEPT ![<<chat_id, "reply">>] = @ - 1,
                                                   ![<<chat_id, "send">>] = @ + 1]
                   /\ jobs' = js
                   /\ UNCHANGED <<bg_tasks, loops>>
    /\ UNCHANGED <<authVars, job_queue>>

\* send_message returns or raises (the except of line 442 swallows it): the
\* handler goes on with lines 344-354 or 363-370.
StartSendDone(chat_id) ==
    /\ handlers[<<chat_id, "send">>] > 0
    /\ handlers' = [handlers EXCEPT ![<<chat_id, "send">>] = @ - 1]
    /\ ArmRest(jobs, chat_id)
    /\ UNCHANGED <<authVars, emitted, job_queue, seen_keys, seen_orders, out>>

(***************************************************************************)
(* manual_check, bot.py:372-386, and manual_check_orders, bot.py:388-412,  *)
(* after their first reply.  reply_ok: the reply with the result is        *)
(* delivered; err_ok: the reply of the except branch is delivered.         *)
(***************************************************************************)
ManualCheck(chat_id, chats) ==
    /\ \E reply_ok, err_ok \in BOOLEAN :
          LET unread == GetUnread(chats)
              alerts == ManualAlerts(unread.items)
              raised == ~unread.ok \/ ~reply_ok
          IN  out' = CheckRecord(chat_id, "manual", "msgs", unread.items,
                                 IF unread.ok THEN alerts ELSE << >>, << >>, raised,
                                 IF ~unread.ok \/ alerts = << >> THEN "none"
                                 ELSE IF reply_ok THEN "ok" ELSE "failed",
                                 ErrorReply("manual", raised, err_ok))
    /\ UNCHANGED <<authVars, schedVars, emitted, seen_keys, seen_orders>>

ManualCheckOrders(chat_id, sales) ==
    /\ \E reply_ok, err_ok \in BOOLEAN :
          LET r == OrdersCompute(seen_orders, chat_id, sales)
              raised == r.raised \/ ~reply_ok
          IN  /\ seen_orders' = r.seen_map
              /\ emitted' = Emit(emitted, "orders", chat_id,
                                  {OrderId(r.alerts[i]) : i \in DOMAIN r.alerts})
              /\ out' = CheckRecord(chat_id, "manual", "orders", << >>, << >>, r.alerts, raised,
                                    SendResult(r.alerts, reply_ok),
                                    ErrorReply("manual", raised, err_ok))
    /\ UNCHANGED <<authVars, schedVars, seen_keys>>

(***************************************************************************)
(* The upstream data the detectors are run on.                             *)
(***************************************************************************)
Msg(id, buyer, deleted, date_written, created_at, message) ==
    [id |-> id, buyer |-> buyer, deleted |-> deleted, date_written |-> date_written,
     created_at |-> created_at, message |-> message]

\* Messages of every kind the selection distinguishes.
MsgPool ==
    {Msg(1, "1", "0", "2024-01-01T00:00:01Z", "", "hello"),
     Msg(2, "1", "0", "2024-01-01T00:00:02Z", "", "are you there"),
     Msg(3, "0", "0", "2024-01-01T00:00:03Z", "", "seller reply"),
     Msg(4, "1", "1", "2024-01-01T00:00:03Z", "", "deleted"),
     Msg(5, "1", "0", "", "", "no date"),
     Msg(0, "1", "0", "yesterday", "", "bad date"),
     Msg(0, "yes", "0", "2024-01-01T00:00:03Z", "", "bad flag")}

\* The sequences over S of length at most n.
SeqsUpTo(S, n) == UNION {[1..k -> S] : k \in 0..n}

Threads == SeqsUpTo(MsgPool, MaxThread)

Chat(id_i, cnt_new, last_message) ==
    [id_i |-> id_i, email |-> "buyer@example.com", cnt_new |-> cnt_new,
     last_message |-> last_message]

Conv(chat, r1, r100) == [chat |-> chat, r1 |-> r1, r100 |-> r100]

FailResp == Resp(FALSE, << >>)

\* What the count=1 fetch may answer for a thread: an error, nothing, or any
\* one message of the thread (the upstream's order is not known).
FirstResps(thread) ==
    {FailResp, Resp(TRUE, << >>)} \cup {Resp(TRUE, <<thread[i]>>) : i \in DOMAIN thread}

\* What the count=100 fetch may answer: an error or the thread.
FullResps(thread) == {FailResp, Resp(TRUE, thread)}

Summaries(id_i) == {Chat(id_i, 2, ""), Chat(id_i, 2, "2024-01-01T00:00:03Z")}

\* Every conversation with the given id.
Convs(id_i) ==
    UNION {{Conv(chat, r1, r100) : chat \in Summaries(id_i),
                                  r1 \in FirstResps(thread), r100 \in FullResps(thread)}
           : thread \in Threads}

OneMsg == Msg(1, "1", "0", "2024-01-01T00:00:01Z", "", "hello")
TwoMsg == Msg(2, "1", "0", "2024-01-01T00:00:02Z", "", "are you there")

\* A few conversations with the given id, for lists of several conversations.
ConvCases(id_i) ==
    {Conv(Chat(id_i, 1, "2024-01-01T00:00:01Z"), Resp(TRUE, <<OneMsg>>), Resp(TRUE, <<OneMsg>>)),
     Conv(Chat(id_i, 2, "2024-01-01T00:00:02Z"), Resp(TRUE, <<TwoMsg>>),
          Resp(TRUE, <<OneMsg, TwoMsg>>)),
     Conv(Chat(id_i, 2, "2024-01-01T00:00:03Z"), Resp(TRUE, << >>), Resp(TRUE, << >>)),
     Conv(Chat(id_i, 1, ""), FailResp, FailResp)}

\* The lists of conversations 1..n, conversation i one of ConvCases(i).
RECURSIVE CaseLists(_)
CaseLists(n) ==
    IF n = 0 THEN {<< >>}
    ELSE {Append(l, c) : l \in CaseLists(n - 1), c \in ConvCases(n)}

\* The list-chats responses: one conversation of any kind, or up to max
\* conversations of the kinds of ConvCases.
ChatLists(max) ==
    {Resp(TRUE, <<c>>) : c \in Convs(1)}
    \cup UNION {{Resp(TRUE, l) : l \in CaseLists(n)} : n \in 0..max}

Sale(invoice_id, ok, date_pay) ==
    [sale |-> [invoice_id |-> invoice_id, product_name |-> "item", date |-> "2024-01-01"],
     ok   |-> ok,
     info |-> [date_pay |-> date_pay, name |-> "", purchase_date |-> ""]]

\* A sale with the given invoice: paid, not paid, its detail failing, or a
\* stub without invoice_id.
SaleCases(invoice_id) ==
    {Sale(invoice_id, TRUE, "2024-01-01T00:00:05Z"), Sale(invoice_id, TRUE, ""),
     Sale(invoice_id, FALSE, ""), Sale(NoInvoice, TRUE, "2024-01-01T00:00:05Z")}

\* The lists of sales 1..n, sale i one of SaleCases(i).
RECURSIVE SaleLists(_)
SaleLists(n) ==
    IF n = 0 THEN {<< >>}
    ELSE {Append(l, c) : l \in SaleLists(n - 1), c \in SaleCases(n)}

\* The last-sales responses with sales 1..n, n <= max.
SalesLists(max) == UNION {{Resp(TRUE, l) : l \in SaleLists(n)} : n \in 0..max}

(***************************************************************************)
(* The scheduler specification: two chats, either strategy, any number of  *)
(* /start updates, ticks and manual checks, every fetch answered by the    *)
(* upstream's choice among a few responses.                                *)
(***************************************************************************)
\* What the list-chats and last-sales fetches may answer in this specification.
SchedChats ==
    {FailResp, Resp(TRUE, << >>),
     Resp(TRUE, <<Conv(Chat(1, 1, "2024-01-01T00:00:01Z"), Resp(TRUE, <<OneMsg>>),
                       Resp(TRUE, <<OneMsg>>))>>)}

SchedSales ==
    {FailResp, Resp(TRUE, <<Sale(1, TRUE, "2024-01-01T00:00:05Z")>>),
     Resp(TRUE, <<Sale(1, TRUE, "")>>)}

NoUpstream == [chats |-> Resp(TRUE, << >>), sales |-> Resp(TRUE, << >>)]

InitAuthIdle ==
    /\ SELLER_ID = "42" /\ API_KEY = "key"
    /\ API_TOKEN = "" /\ API_TOKEN_EXPIRES_AT = 0
    /\ now = 1000 /\ call = NoCall
    /\ busy = Idle /\ emitted = NoneEmitted

Init ==
    /\ InitAuthIdle
    /\ job_queue \in BOOLEAN
    /\ seen_keys = << >> /\ seen_orders = << >>
    /\ jobs = [n \in JobNames |-> 0]
    /\ bg_tasks = {}
    /\ loops = [k \in ChatIds \X Cats |-> 0]
    /\ handlers = [k \in ChatIds \X {"reply", "send"} |-> 0]
    /\ out = NoCheck
    /\ up = NoUpstream
    /\ steps = 0

\* What may happen next in the session of one chat.
Session(chat_id) ==
    \/ StartBegin(chat_id)
    \/ StartReplyRaises(chat_id)
    \/ \E chats \in SchedChats : StartSetUp(chat_id, chats)
    \/ StartSendDone(chat_id)
    \/ \E chats \in SchedChats : AutoCheck(chat_id, chats)
    \/ \E chats \in SchedChats : AutoCheckLoop(chat_id, chats)
    \/ \E sales \in SchedSales : AutoOrdersCheck(chat_id, sales)
    \/ \E sales \in SchedSales : AutoOrdersLoop(chat_id, sales)
    \/ \E chats \in SchedChats : ManualCheck(chat_id, chats)
    \/ \E sales \in SchedSales : ManualCheckOrders(chat_id, sales)

Next == \E chat_id \in ChatIds : Session(chat_id)

Spec == Init /\ [][Next]_vars

(***************************************************************************)
(* C1: once a key is in a session's seen-set, no later check of that       *)
(* session (a tick, the immediate check of start, a manual check) emits    *)
(* an alert for it as new.                                                 *)
(***************************************************************************)
C1_NeverReEmitted ==
    [][out' # out =>
          /\ \A i \in DOMAIN out'.alerts :
                out'.alerts[i].key \notin SeenOf(seen_keys, out'.chat)
          /\ \A i \in DOMAIN out'.orders :
                OrderId(out'.orders[i]) \notin SeenOf(seen_orders, out'.chat)]_vars

(***************************************************************************)
(* C2: whatever /start updates arrive for a chat and however their         *)
(* handlers interleave, the chat has at most one message timer and at most *)
(* one order timer, under the JobQueue and under the fallback loops.       *)
(***************************************************************************)
C2_OneTimerPerChat ==
    \A chat_id \in ChatIds, cat \in Cats :
        /\ jobs[JobName(cat, chat_id)] <= 1
        /\ loops[<<chat_id, cat>>] <= 1

\* A start of the chat has run to its end and another one, suspended in the send
\* of its immediate check, has replaced the message job.
C2_Witness ==
    \E chat_id \in ChatIds :
        /\ handlers[<<chat_id, "send">>] = 1
        /\ jobs[JobName("msgs", chat_id)] = 1
        /\ jobs[JobName("orders", chat_id)] = 1

(***************************************************************************)
(* The detector specification: one chat whose session has started under    *)
(* the JobQueue, an upstream whose data does not change, and any number   *)
(* of checks of it.                                                        *)
(***************************************************************************)
DetectChats == {FailResp} \cup ChatLists(MaxConv)
DetectSales == {FailResp} \cup SalesLists(MaxSales)

DetectUps ==
    {[chats |-> c, sales |-> Resp(TRUE, << >>)] : c \in DetectChats}
    \cup {[chats |-> Resp(TRUE, << >>), sales |-> s] : s \in DetectSales}

InitDetect ==
    /\ InitAuthIdle
    /\ job_queue = TRUE
    /\ seen_keys = (1 :> {}) /\ seen_orders = (1 :> {})
    /\ jobs = [n \in JobNames |-> IF n \in {JobName(cat, 1) : cat \in Cats} THEN 1 ELSE 0]
    /\ bg_tasks = {}
    /\ loops = [k \in ChatIds \X Cats |-> 0]
    /\ handlers = [k \in ChatIds \X {"reply", "send"} |-> 0]
    /\ out = [NoCheck EXCEPT !.seq = 1, !.chat = 1, !.kind = "immediate", !.cat = "msgs"]
    /\ up \in DetectUps
    /\ steps = 0

NextDetect ==
    \/ AutoCheck(1, up.chats)
    \/ AutoOrdersCheck(1, up.sales)
    \/ ManualCheck(1, up.chats)
    \/ ManualCheckOrders(1, up.sales)

DetectSpec == InitDetect /\ [][NextDetect]_vars

(***************************************************************************)
(* The auth specification: the process with any configuration, no token    *)
(* yet, and a bounded number of calls and clock advances.                  *)
(***************************************************************************)
InitAuth ==
    /\ SELLER_ID \in {"", " ", "42", "abc"}
    /\ API_KEY \in {"", "key"}
    /\ API_TOKEN = "" /\ API_TOKEN_EXPIRES_AT = 0
    /\ now = 1000 /\ call = NoCall
    /\ busy = Idle /\ emitted = NoneEmitted
    /\ job_queue = TRUE
    /\ seen_keys = << >> /\ seen_orders = << >>
    /\ jobs = [n \in JobNames |-> 0]
    /\ bg_tasks = {}
    /\ loops = [k \in ChatIds \X Cats |-> 0]
    /\ handlers = [k \in ChatIds \X {"reply", "send"} |-> 0]
    /\ out = NoCheck
    /\ up = NoUpstream
    /\ steps = 0

NextAuth == EnsureCall \/ RequestCall \/ ClockTick \/ DebugCall

AuthSpec == InitAuth /\ [][NextAuth]_vars

(***************************************************************************)
(* C3, as claimed: in one _request_json call a 401 to the first GET is     *)
(* followed by exactly one forced refresh and exactly one retry, and a     *)
(* second 401 ends the call with the auth error.                           *)
(***************************************************************************)
First401 == call.kind = "request" /\ Len(call.gets) >= 1 /\ call.gets[1].status = 401

C3_Original ==
    First401 =>
        /\ call.forced = 1
        /\ Len(call.gets) = 2
        /\ call.gets[2].status = 401 => call.outcome = "unauthorized"

\* What _ensure_api_token raises.
LoginErrors == {"config", "value", "login", "login_transport"}

(***************************************************************************)
(* C3, amended: a 401 to the first GET is followed by exactly one forced   *)
(* refresh; the request is retried exactly once, with the same query,      *)
(* unless the refresh (or the token check before the retry) raises, and    *)
(* then the call ends with that error and no retry.  A second 401 ends     *)
(* the call with the auth error.  No call issues more than two GETs, and   *)
(* none refreshes or retries without a 401.                                *)
(***************************************************************************)
C3_OneRefreshOneRetry ==
    call.kind = "request" =>
        /\ Len(call.gets) <= 2
        /\ First401 =>
              /\ call.forced = 1
              /\ Len(call.gets) = 1 => call.outcome \in LoginErrors
              /\ Len(call.gets) = 2 =>
                    /\ call.gets[2].token_param = call.gets[1].token_param
                    /\ call.gets[2].status = 401 => call.outcome = "unauthorized"
        /\ ~First401 => call.forced = 0 /\ Len(call.gets) <= 1

\* Both GETs of a call were answered 401.
C3_Witness ==
    /\ First401 /\ Len(call.gets) = 2 /\ call.gets[2].status = 401
    /\ call.forced = 1 /\ call.outcome = "unauthorized"

(***************************************************************************)
(* C4: with the configuration present and force_refresh false,             *)
(* _ensure_api_token issues no login when a token is stored whose expiry   *)
(* is more than 30 seconds away, and issues one in every other case.       *)
(***************************************************************************)
ConfigPresent == ~SellerIdMissing /\ ~SellerIdNotInt /\ API_KEY # ""

C4_RefreshMargin ==
    [][(call' # call /\ call'.kind = "ensure" /\ ~call'.force /\ ConfigPresent) =>
          (call'.logins = 0 <=> (API_TOKEN # "" /\ API_TOKEN_EXPIRES_AT - now > 30))]_vars

\* A stored token exactly 30 seconds from its expiry made the call log in (the
\* login failed, so the pair is still the stored one).
C4_Witness ==
    /\ call.kind = "ensure" /\ ~call.force /\ call.logins = 1 /\ call.outcome = "login"
    /\ API_TOKEN # "" /\ API_TOKEN_EXPIRES_AT - now = 30

(***************************************************************************)
(* C5: a login that fails (a status other than 200, or a 200 whose body    *)
(* has no token) makes _ensure_api_token raise and leaves the stored token *)
(* and its expiry as they were.                                            *)
(***************************************************************************)
LoginFailed(c) ==
    /\ c.kind = "ensure" /\ c.logins = 1
    /\ (c.resp.status # 200 \/ ~c.resp.ctjson \/ c.resp.token = "")

C5_FailedLoginKeepsToken ==
    [][(call' # call /\ LoginFailed(call')) =>
          /\ call'.outcome \in {"login", "login_transport"}
          /\ API_TOKEN' = API_TOKEN
          /\ API_TOKEN_EXPIRES_AT' = API_TOKEN_EXPIRES_AT]_vars

\* A forced refresh got a 200 without a token while a token was stored.
C5_Witness ==
    /\ LoginFailed(call) /\ call.resp.status = 200 /\ call.resp.ctjson
    /\ API_TOKEN = "tokA" /\ API_TOKEN_EXPIRES_AT - now > 30

(***************************************************************************)
(* The detector claims, under DetectSpec.  out.unread[i] is what           *)
(* get_unread made of conversation i of up.chats.                          *)
(***************************************************************************)
MsgsChecked == out.cat = "msgs" /\ out.kind \in {"tick", "manual"}

(***************************************************************************)
(* C6: the representative message get_unread chooses for a conversation    *)
(* is never a deleted message and never a message that is not the buyer's. *)
(***************************************************************************)
C6_NeverDeletedNorSeller ==
    MsgsChecked =>
        \A i \in DOMAIN out.unread :
            \A m \in {out.unread[i].message[k] : k \in DOMAIN out.unread[i].message} :
                m.deleted # "1" /\ m.buyer = "1"

\* A buyer's message that is not deleted and whose timestamp parses.
Dated(m) == m.buyer = "1" /\ m.deleted = "0" /\ MsgTs(m) # NegInf

(***************************************************************************)
(* C7: when a conversation holds two buyer messages, not deleted, with     *)
(* parseable timestamps t1 < t2, the representative is not the one with    *)
(* t1, whatever the count=1 fetch answered.                                *)
(***************************************************************************)
C7_LatestSelected ==
    MsgsChecked =>
        \A i \in DOMAIN out.unread :
            LET thread == up.chats.items[i].r100
            IN  thread.ok =>
                  \A j, k \in DOMAIN thread.items :
                      (Dated(thread.items[j]) /\ Dated(thread.items[k])
                         /\ MsgTs(thread.items[j]) < MsgTs(thread.items[k]))
                      => out.unread[i].message # <<thread.items[j]>>

\* The invoices of up.sales whose purchase detail has no payment date.
Unpaid ==
    {up.sales.items[i].sale.invoice_id :
        i \in {j \in DOMAIN up.sales.items :
                  up.sales.items[j].ok /\ up.sales.items[j].info.date_pay = ""}}

(***************************************************************************)
(* C8: an order whose purchase detail has no payment date is not in the    *)
(* output of get_recent_orders, is not alerted and is in no orders         *)
(* seen-set.                                                               *)
(***************************************************************************)
C8_UnpaidNeverReported ==
    \A id \in Unpaid :
        /\ \A i \in DOMAIN GetRecentOrders(up.sales).items :
               GetRecentOrders(up.sales).items[i].number # id
        /\ \A i \in DOMAIN out.orders : out.orders[i].number # id
        /\ \A c \in DOMAIN seen_orders : id \notin seen_orders[c]

\* An orders tick reported a paid order while another sale of the same
\* response was not paid.
C8_Witness ==
    /\ out.kind = "tick" /\ out.cat = "orders" /\ out.orders # << >>
    /\ Unpaid # {} /\ seen_orders[1] # {}

MsgsTick(o) == o.kind = "tick" /\ o.cat = "msgs"

(***************************************************************************)
(* C9: a message check of a session whose seen-set is empty, the upstream  *)
(* answering n unread conversations, yields n alerts and a seen-set of     *)
(* size n; the message check that follows it on the same upstream data     *)
(* yields no alert and leaves the seen-set as it is.                       *)
(***************************************************************************)
C9_FirstAndSecondCheck ==
    [][(out' # out /\ MsgsTick(out') /\ up.chats.ok) =>
          /\ seen_keys[1] = {} =>
                /\ Len(out'.alerts) = Len(up.chats.items)
                /\ Cardinality(seen_keys'[1]) = Len(up.chats.items)
          /\ MsgsTick(out) =>
                /\ out'.alerts = << >>
                /\ seen_keys' = seen_keys]_vars

\* The second check of three conversations: three keys seen, nothing alerted.
C9_Witness ==
    /\ MsgsTick(out) /\ Len(up.chats.items) = 3
    /\ Len(out.unread) = 3 /\ out.alerts = << >>
    /\ Cardinality(seen_keys[1]) = 3

(***************************************************************************)
(* The scheduler under fairness: a timer that is armed fires again (the    *)
(* JobQueue runs a repeating job every interval; a loop task's sleep       *)
(* ends).  Nothing is assumed of /start updates or manual checks.  One     *)
(* chat: the timers of two chats share nothing.                            *)
(***************************************************************************)
FairChat == CHOOSE chat_id \in ChatIds : TRUE
Armed(chat_id, cat) == jobs[JobName(cat, chat_id)] > 0 \/ loops[<<chat_id, cat>>] > 0

Tick(chat_id, cat) ==
    IF cat = "msgs"
    THEN \E chats \in SchedChats : AutoCheck(chat_id, chats) \/ AutoCheckLoop(chat_id, chats)
    ELSE \E sales \in SchedSales :
             AutoOrdersCheck(chat_id, sales) \/ AutoOrdersLoop(chat_id, sales)

NextFair == Session(FairChat)

FairSpec ==
    Init /\ [][NextFair]_vars /\ \A cat \in Cats : WF_vars(Tick(FairChat, cat))

(***************************************************************************)
(* C10: no failure of a scheduled check (the fetch raising, the send       *)
(* raising) ends the schedule: once a session's message or order timer is  *)
(* armed, its ticks fire again and again, whichever of them fail, under    *)
(* the JobQueue and under the fallback loops.                              *)
(***************************************************************************)
C10_TicksNeverStop ==
    \A cat \in Cats : <>Armed(FairChat, cat) => []<><<Tick(FairChat, cat)>>_vars

\* A pass of a fallback loop failed and the loop task is still there.
C10_Witness ==
    /\ ~job_queue /\ out.kind = "tick" /\ out.raised
    /\ loops[<<out.chat, out.cat>>] = 1

(***************************************************************************)
(* C11: with the seller id or the API key absent, no operation sends a     *)
(* network request: the calls made so far have issued no login POST and    *)
(* no GET.                                                                 *)
(***************************************************************************)
C11_NoRequestWithoutConfig ==
    (SellerIdMissing \/ API_KEY = "") => (call.logins = 0 /\ call.gets = << >>)

(***************************************************************************)
(* C12: a seen-set only grows: every step keeps every session's set of     *)
(* message keys and of order ids, with all the keys it had.                *)
(***************************************************************************)
C12_SeenSetsOnlyGrow ==
    [][/\ \A c \in DOMAIN seen_keys :
             c \in DOMAIN seen_keys' /\ seen_keys[c] \subseteq seen_keys'[c]
       /\ \A c \in DOMAIN seen_orders :
             c \in DOMAIN seen_orders' /\ seen_orders[c] \subseteq seen_orders'[c]]_vars

\* A session that had seen a message was started again: the immediate check
\* found the message and alerted nothing, and the orders seen are kept too.
C12_Witness ==
    /\ out.kind = "immediate" /\ out.unread # << >> /\ out.alerts = << >>
    /\ seen_keys[out.chat] # {} /\ seen_orders[out.chat] # {}

(***************************************************************************)
(* C13: when a check fails, a manual check sends the error text to the     *)
(* chat that asked, and a scheduled check (a tick, the immediate check of  *)
(* start) sends no error text and delivers nothing to any chat.            *)
(***************************************************************************)
C13_ErrorsToManualOnly ==
    out.raised =>
        /\ out.kind = "manual" => out.err_to_chat # "none"
        /\ out.kind \in {"tick", "immediate"} =>
              out.err_to_chat = "none" /\ out.delivered \in {"none", "failed"}

\* A manual check whose fetch raised told the chat so.
C13_Witness ==
    /\ out.kind = "manual" /\ out.raised /\ out.delivered = "none"
    /\ out.alerts = << >> /\ out.orders = << >> /\ out.err_to_chat = "ok"

\* Both message fetches of the conversation gave no message.
NoMessages(conv) ==
    /\ ~conv.r1.ok \/ conv.r1.items = << >>
    /\ ~conv.r100.ok \/ conv.r100.items = << >>

\* The key and the alert the summary of a conversation gives.
SummaryKey(chat) ==
    IntStr(chat.id_i) \o ":" \o
        (IF chat.last_message # "" THEN chat.last_message ELSE IntStr(chat.cnt_new))

IsSummaryAlert(a, chat) ==
    /\ a.key = SummaryKey(chat)
    /\ a.alert.conversation_id = IntStr(chat.id_i)
    /\ a.alert.text = "New messages: " \o IntStr(chat.cnt_new)
    /\ a.alert.dt = (IF chat.last_message # "" THEN chat.last_message ELSE "-")

(***************************************************************************)
(* C14: a conversation the list reports unread and whose message fetches   *)
(* give no message (empty or failing) is not dropped: the check alerts it  *)
(* with the summary's unread counter and last-message snapshot under the   *)
(* thread-level key, unless that key was seen before; a scheduled check    *)
(* has the key in the seen-set afterwards.                                 *)
(***************************************************************************)
C14_SyntheticAlert ==
    [][(out' # out /\ out'.cat = "msgs" /\ up.chats.ok) =>
          \A i \in DOMAIN up.chats.items :
              LET conv == up.chats.items[i]
                  sent == \E j \in DOMAIN out'.alerts :
                              IsSummaryAlert(out'.alerts[j], conv.chat)
              IN  NoMessages(conv) =>
                    /\ out'.kind = "manual" => sent
                    /\ out'.kind = "tick" =>
                          /\ sent \/ SummaryKey(conv.chat) \in seen_keys[1]
                          /\ SummaryKey(conv.chat) \in seen_keys'[1]]_vars

\* A tick alerted a conversation without messages from its summary.
C14_Witness ==
    /\ MsgsTick(out) /\ up.chats.ok
    /\ \E i \in DOMAIN up.chats.items :
          /\ NoMessages(up.chats.items[i])
          /\ out.unread[i].message = << >>
          /\ \E j \in DOMAIN out.alerts :
                IsSummaryAlert(out.alerts[j], up.chats.items[i].chat)

(***************************************************************************)
(* The event loop, step by step.  The coroutines of the application run    *)
(* on one thread, and _ensure_api_token and _request_json call             *)
(* requests.post and requests.get (lines 92, 119), which return only when  *)
(* the upstream has answered: a check that is in one of them holds the     *)
(* thread.  busy.at says where the running check is: "login" (line 92,     *)
(* from line 115), "forced_login" (line 92, from line 123), "expiry" and   *)
(* "forced_expiry" (line 100 done, line 110 not yet), "get" (line 119).    *)
(* The first request of a check is followed step by step; the requests     *)
(* that follow it in the same check go the same way and are part of the    *)
(* step in which the check returns.                                        *)
(***************************************************************************)
LoopFreeMut == TRUE

\* A coroutine is entered only when no other one is running.
LoopFree == busy = Idle

Holding(chat_id, cat, at, retry, valid_thru) ==
    [chat |-> chat_id, cat |-> cat, at |-> at, retry |-> retry, valid_thru |-> valid_thru]

IsAt(chat_id, cat, places) == busy.chat = chat_id /\ busy.cat = cat /\ busy.at \in places

\* line 86 as line 115 reaches it: to the GET with a fresh token, to the login
\* otherwise.
AfterFreshTest(token, exp) ==
    IF TokenFresh(token, exp, now, FALSE) THEN "get" ELSE "login"

\* A tick of (chat_id, cat) is entered and runs to its first upstream call.
CheckBegin(chat_id, cat) ==
    /\ Armed(chat_id, cat)
    /\ LoopFree
    /\ busy' = Holding(chat_id, cat, AfterFreshTest(API_TOKEN, API_TOKEN_EXPIRES_AT), TRUE,
                       NoValidThru)
    /\ UNCHANGED <<SELLER_ID, API_KEY, API_TOKEN, API_TOKEN_EXPIRES_AT, now, call, up, steps,
                   schedVars, emitted, seen_keys, seen_orders, out>>

\* The check ends: _auto_check_once or _auto_orders_once with what the fetch gave.
CheckEnds(chat_id, cat, chats, sales, send_ok) ==
    /\ IF cat = "msgs" THEN AutoCheckOnce(chat_id, chats, send_ok)
                       ELSE AutoOrdersOnce(chat_id, sales, send_ok)
    /\ loops' = IF job_queue THEN loops ELSE LoopAfterCheck(loops, chat_id, cat, out'.raised)
    /\ busy' = Idle
    /\ UNCHANGED <<SELLER_ID, API_KEY, now, call, up, steps, job_queue, jobs, bg_tasks,
                   handlers>>

\* The login POST is answered with a failure: lines 93-99 raise, the fetch of
\* the check raises, and the check ends in its except.
LoginFails(chat_id, cat) ==
    /\ IsAt(chat_id, cat, {"login", "forced_login"})
    /\ \E r \in LoginResps(now) :
          /\ EnsureApiToken(API_TOKEN, API_TOKEN_EXPIRES_AT, now, TRUE, r).raised # ""
          /\ CheckEnds(chat_id, cat, FailResp, FailResp, TRUE)
    /\ UNCHANGED <<API_TOKEN, API_TOKEN_EXPIRES_AT>>

\* The login POST is answered with a token: line 100.
LoginStoresToken(chat_id, cat) ==
    /\ IsAt(chat_id, cat, {"login", "forced_login"})
    /\ \E r \in LoginResps(now) :
          /\ EnsureApiToken(API_TOKEN, API_TOKEN_EXPIRES_AT, now, TRUE, r).raised = ""
          /\ API_TOKEN' = r.token
          /\ busy' = [busy EXCEPT !.at = IF busy.at = "login" THEN "expiry" ELSE "forced_expiry",
                                  !.valid_thru = r.valid_thru]
    /\ UNCHANGED <<SELLER_ID, API_KEY, API_TOKEN_EXPIRES_AT, now, call, up, steps, schedVars,
                   emitted, seen_keys, seen_orders, out>>

\* Lines 102-110, then the GET of line 119; after the forced refresh of line 123
\* the recursive call of line 124 tests the new pair at line 86 first.
StoreExpiry(chat_id, cat) ==
    /\ IsAt(chat_id, cat, {"expiry", "forced_expiry"})
    /\ API_TOKEN_EXPIRES_AT' = ExpiresAt(busy.valid_thru, now)
    /\ busy' = [busy EXCEPT !.at = IF busy.at = "expiry" THEN "get"
                                  ELSE AfterFreshTest(API_TOKEN, API_TOKEN_EXPIRES_AT'),
                            !.valid_thru = NoValidThru]
    /\ UNCHANGED <<SELLER_ID, API_KEY, API_TOKEN, now, call, up, steps, schedVars, emitted,
                   seen_keys, seen_orders, out>>

\* The GET is answered 401 and _retry is set: lines 122-123.
GetUnauthorized(chat_id, cat) ==
    /\ IsAt(chat_id, cat, {"get"})
    /\ busy.retry
    /\ busy' = [busy EXCEPT !.at = "forced_login", !.retry = RetryArg]
    /\ UNCHANGED <<SELLER_ID, API_KEY, API_TOKEN, API_TOKEN_EXPIRES_AT, now, call, up, steps,
                   schedVars, emitted, seen_keys, seen_orders, out>>

\* The GET is answered otherwise: the fetch returns or raises, the check runs
\* to its end.
CheckReturns(chat_id, cat) ==
    /\ IsAt(chat_id, cat, {"get"})
    /\ \E chats \in SchedChats, sales \in SchedSales, send_ok \in BOOLEAN :
          CheckEnds(chat_id, cat, chats, sales, send_ok)
    /\ UNCHANGED <<API_TOKEN, API_TOKEN_EXPIRES_AT>>

\* Both chats have started their sessions, under either strategy.
InitLoop ==
    /\ InitAuthIdle
    /\ job_queue \in BOOLEAN
    /\ seen_keys = [c \in ChatIds |-> {}] /\ seen_orders = [c \in ChatIds |-> {}]
    /\ jobs = [n \in JobNames |-> IF job_queue THEN 1 ELSE 0]
    /\ bg_tasks = IF job_queue THEN {} ELSE ChatIds \X Cats
    /\ loops = [k \in ChatIds \X Cats |-> IF job_queue THEN 0 ELSE 1]
    /\ handlers = [k \in ChatIds \X {"reply", "send"} |-> 0]
    /\ out = NoCheck
    /\ up = NoUpstream
    /\ steps = 0

NextLoop ==
    \E chat_id \in ChatIds, cat \in Cats :
        \/ CheckBegin(chat_id, cat)
        \/ LoginFails(chat_id, cat)
        \/ LoginStoresToken(chat_id, cat)
        \/ StoreExpiry(chat_id, cat)
        \/ GetUnauthorized(chat_id, cat)
        \/ CheckReturns(chat_id, cat)

LoopSpec == InitLoop /\ [][NextLoop]_vars

(***************************************************************************)
(* C15: checks never block each other: while a check waits for an answer   *)
(* of the upstream, a check of another chat or of the other category,      *)
(* whose timer is armed, can start.                                        *)
(***************************************************************************)
C15_ChecksNeverBlock ==
    \A c1, c2 \in ChatIds, cat1, cat2 \in Cats :
        (/\ IsAt(c1, cat1, {"login", "forced_login", "get"})
         /\ <<c1, cat1>> # <<c2, cat2>>
         /\ Armed(c2, cat2))
        => ENABLED CheckBegin(c2, cat2)

\* The stored pair is the initial one or the token and the expiry of one
\* successful login response.
PairFromOneLogin ==
    \/ API_TOKEN = "" /\ API_TOKEN_EXPIRES_AT = 0
    \/ \E r \in LoginResps(now) :
          /\ r.status = 200 /\ r.ctjson /\ r.token # ""
          /\ API_TOKEN = r.token
          /\ API_TOKEN_EXPIRES_AT =
                (IF r.valid_thru.kind = "iso" THEN r.valid_thru.ts ELSE now + 1800)

(***************************************************************************)
(* C19: whatever the interleaving of the checks that refresh the token,    *)
(* a check that begins, and so reads the stored pair (lines 86, 75, 137),  *)
(* finds a token and an expiry that come from the same login response.     *)
(***************************************************************************)
C19_PairNeverMixed ==
    [][(\E chat_id \in ChatIds, cat \in Cats : CheckBegin(chat_id, cat)) => PairFromOneLogin]_vars

\* A check is in its login while the pair another chat's check stored is
\* still there, too close to its expiry to be used.
C19_Witness ==
    /\ busy.at = "login" /\ API_TOKEN = "tokB"
    /\ out.kind = "tick" /\ out.chat # busy.chat

(***************************************************************************)
(* C16: on a session start the chat's timers are cancelled first, then     *)
(* the immediate message check runs, and the periodic triggers are armed   *)
(* only after it has completed: in the step that runs the immediate check  *)
(* and leaves it waiting for its send, the chat has no timer armed.        *)
(***************************************************************************)
C16_CheckBeforeArming ==
    [][(out' # out /\ out'.kind = "immediate" /\ out'.delivered = "pending") =>
          \A cat \in Cats :
              /\ jobs'[JobName(cat, out'.chat)] = 0
              /\ loops'[<<out'.chat, cat>>] = 0]_vars

BuyerAt(thread) == {j \in DOMAIN thread : IsBuyerMsg(thread[j])}

\* Every such message of the thread is undated, and there is one.
AllUndated(thread) ==
    /\ BuyerAt(thread) # {}
    /\ \A j \in BuyerAt(thread) : MsgTs(thread[j]) = NegInf

(***************************************************************************)
(* C18: when a message check has fetched a thread whose buyer messages,    *)
(* not deleted, all have an absent or unparseable timestamp, the selection *)
(* function returns the first of them in the thread's order.               *)
(***************************************************************************)
C18_FirstUndatedSelected ==
    MsgsChecked =>
        \A i \in DOMAIN up.chats.items :
            LET thread == up.chats.items[i].r100
            IN  (thread.ok /\ AllUndated(thread.items)) =>
                  SelectLastUnreadBuyerMessage(thread.items) =
                      <<thread.items[CHOOSE j \in BuyerAt(thread.items) :
                                        \A k \in BuyerAt(thread.items) : j <= k]>>

\* The check that has just run deduplicates: every check but manual_check.
Deduplicating(o) == ~(o.kind = "manual" /\ o.cat = "msgs")

(***************************************************************************)
(* C20: whatever the interleaving of the checks of one chat and category   *)
(* (ticks one after the other, a tick while the immediate check of start   *)
(* is still sending, a manual order check and a scheduled one), a key that *)
(* one deduplicating check has alerted as new is never alerted as new by   *)
(* another.                                                                *)
(***************************************************************************)
C20_NeverNewTwice ==
    [][(out' # out /\ Deduplicating(out')) =>
          /\ \A i \in DOMAIN out'.alerts :
                <<out'.chat, out'.alerts[i].key>> \notin emitted.msgs
          /\ \A i \in DOMAIN out'.orders :
                <<out'.chat, OrderId(out'.orders[i])>> \notin emitted.orders]_vars

\* A tick has run while the immediate check of the same chat was still
\* sending its alert: it found the conversation unread and alerted nothing.
C20_Witness ==
    /\ out.kind = "tick" /\ out.cat = "msgs"
    /\ handlers[<<out.chat, "send">>] > 0
    /\ out.unread # << >> /\ out.alerts = << >>
    /\ \E i \in DOMAIN out.unread : <<out.chat, MsgKey(out.unread[i])>> \in emitted.msgs

(***************************************************************************)
(* C21: a scheduled check marks a key as seen only once its alert has been *)
(* delivered: when the send of a tick has failed, none of the keys the     *)
(* tick had to alert is in the chat's seen-set.                            *)
(***************************************************************************)
C21_SeenOnlyAfterDelivery ==
    (out.kind = "tick" /\ out.delivered = "failed") =>
        /\ \A i \in DOMAIN out.alerts :
              out.alerts[i].key \notin SeenOf(seen_keys, out.chat)
        /\ \A i \in DOMAIN out.orders :
              OrderId(out.orders[i]) \notin SeenOf(seen_orders, out.chat)

(***************************************************************************)
(* C22: every GET a typed endpoint issues carries, as its token query      *)
(* parameter, the token stored once _ensure_api_token has run for it: the  *)
(* first request after a lazy login and the retry after a forced refresh   *)
(* carry the token just obtained.                                          *)
(***************************************************************************)
C22_QueryCarriesStoredToken ==
    call.kind = "request" =>
        \A i \in DOMAIN call.gets : call.gets[i].token_param = call.gets[i].stored

====
